---------------------------- MODULE Spec2Model ----------------------------
(***************************************************************************)
(* A model of src/main.py: the recipe service's quantity parser, its       *)
(* regex-driven ingredient extractor, the post-processing of the           *)
(* generative model's JSON answer, and the POST /convert-recipe handler.   *)
(*                                                                         *)
(* Strings are sequences of one-character strings.  Numbers produced by    *)
(* parse_quantity are exact rationals <<n, d>> in lowest terms (d > 0);    *)
(* the final rounding to a binary float is not modelled, it changes        *)
(* neither the sign nor the zero test the code applies to the value.       *)
(***************************************************************************)
EXTENDS Integers, Sequences, FiniteSets, TLC

VARIABLES pc,          \* position of the operation under analysis
          qty_str,     \* parse_quantity: its argument
          quantity,    \* parse_quantity: its outcome
          text,        \* extract_ingredients / the handlers: the recipe text
          ingredients, \* extract_ingredients: the list it returns
          response,    \* convert_with_gemini: what the external call does
          result,      \* convert_with_gemini: the value it returns
          raised,      \* convert_recipe: the exception in flight, if any
          reply        \* convert_recipe: the HTTP reply

vars == <<pc, qty_str, quantity, text, ingredients, response, result, raised, reply>>

(***************************************************************************)
(* Bounds of the model.                                                    *)
(***************************************************************************)
MaxTokLen == 5
MaxLines == 2
MaxItems == 2

(***************************************************************************)
(* Characters.                                                             *)
(***************************************************************************)
Digits == <<"0", "1", "2", "3", "4", "5", "6", "7", "8", "9">>

LowerLetters == <<"a", "b", "c", "d", "e", "f", "g", "h", "i", "j", "k", "l", "m",
                  "n", "o", "p", "q", "r", "s", "t", "u", "v", "w", "x", "y", "z">>

UpperLetters == <<"A", "B", "C", "D", "E", "F", "G", "H", "I", "J", "K", "L", "M",
                  "N", "O", "P", "Q", "R", "S", "T", "U", "V", "W", "X", "Y", "Z">>

Range(f) == {f[i] : i \in DOMAIN f}

\* \d
IsDigit(c) == c \in Range(Digits)

\* [a-zA-Z]
IsAlpha(c) == c \in Range(LowerLetters) \cup Range(UpperLetters)

\* \s, and the characters str.strip() and str.split() treat as blank
IsSpace(c) == c \in {" ", "\n", "\t"}

DigitVal(c) == (CHOOSE i \in DOMAIN Digits : Digits[i] = c) - 1

\* str.lower() on one character
LowerChar(c) ==
    IF c \in Range(UpperLetters)
    THEN LowerLetters[CHOOSE i \in DOMAIN UpperLetters : UpperLetters[i] = c]
    ELSE c

\* str.lower()
Lower(s) == [i \in DOMAIN s |-> LowerChar(s[i])]

\* c in s
HasChar(s, c) == \E i \in DOMAIN s : s[i] = c

\* s[i:j] of Python, on 1-based positions: the characters i .. j-1
Slice(s, i, j) == IF j <= i THEN <<>> ELSE SubSeq(s, i, j - 1)

\* the first position >= i of s that does not satisfy the class, Len(s)+1 if none
RECURSIVE SkipDigits(_, _)
SkipDigits(s, i) == IF i <= Len(s) /\ IsDigit(s[i]) THEN SkipDigits(s, i + 1) ELSE i

RECURSIVE SkipSpace(_, _)
SkipSpace(s, i) == IF i <= Len(s) /\ IsSpace(s[i]) THEN SkipSpace(s, i + 1) ELSE i

RECURSIVE SkipAlpha(_, _)
SkipAlpha(s, i) == IF i <= Len(s) /\ IsAlpha(s[i]) THEN SkipAlpha(s, i + 1) ELSE i

\* the last position <= j of s that is not blank, 0 if none
RECURSIVE SkipSpaceBack(_, _)
SkipSpaceBack(s, j) == IF j >= 1 /\ IsSpace(s[j]) THEN SkipSpaceBack(s, j - 1) ELSE j

\* str.strip()
Strip(s) == Slice(s, SkipSpace(s, 1), SkipSpaceBack(s, Len(s)) + 1)

\* the first position >= i of s that is blank, Len(s)+1 if none
RECURSIVE SkipNonSpace(_, _)
SkipNonSpace(s, i) ==
    IF i <= Len(s) /\ ~IsSpace(s[i]) THEN SkipNonSpace(s, i + 1) ELSE i

\* str.split() with no argument: the maximal runs of non-blank characters
RECURSIVE SplitFrom(_, _)
SplitFrom(s, i) ==
    LET b == SkipSpace(s, i)
        e == SkipNonSpace(s, b)
    IN  IF b > Len(s) THEN <<>> ELSE <<Slice(s, b, e)>> \o SplitFrom(s, e)

SplitBlank(s) == SplitFrom(s, 1)

(***************************************************************************)
(* Exact rationals.                                                        *)
(***************************************************************************)
RECURSIVE Gcd(_, _)
Gcd(a, b) == IF b = 0 THEN a ELSE Gcd(b, a % b)

Rat(n, d) == LET g == Gcd(n, d) IN <<n \div g, d \div g>>

RatAdd(x, y) == Rat(x[1] * y[2] + y[1] * x[2], x[2] * y[2])

RECURSIVE Pow10(_)
Pow10(k) == IF k = 0 THEN 1 ELSE 10 * Pow10(k - 1)

\* the value of a run of decimal digits (0 for the empty run)
RECURSIVE DigitsVal(_)
DigitsVal(s) ==
    IF Len(s) = 0 THEN 0
    ELSE 10 * DigitsVal(SubSeq(s, 1, Len(s) - 1)) + DigitVal(s[Len(s)])

IsDigits(s) == Len(s) > 0 /\ \A i \in DOMAIN s : IsDigit(s[i])

(***************************************************************************)
(* Outcomes of an evaluation: a value, None, or a raised exception.        *)
(***************************************************************************)
Val(v) == [k |-> "val", v |-> v]
None == [k |-> "none"]
Raised(e) == [k |-> "raise", e |-> e]

\* The decimal literals float() and Fraction() both accept once blanks are
\* stripped, over digits and the point: "12", "1.", ".5", "1.5" (not ".").
\* Signs, exponents, underscores, inf and nan are outside the model's alphabet.
DecimalLiteral(s) ==
    LET p == SkipDigits(s, 1)
        q == IF p <= Len(s) /\ s[p] = "." THEN SkipDigits(s, p + 1) ELSE p
        int == Slice(s, 1, p)
        frac == IF q > p THEN Slice(s, p + 1, q) ELSE <<>>
    IN  IF q = Len(s) + 1 /\ Len(int) + Len(frac) > 0
        THEN Val(Rat(DigitsVal(int) * Pow10(Len(frac)) + DigitsVal(frac),
                     Pow10(Len(frac))))
        ELSE Raised("ValueError")

\* float(s) for a string s
FloatOf(s) == DecimalLiteral(Strip(s))

\* Fraction(s) for a string s: a decimal literal, or digits "/" digits with
\* no blank around the slash; a zero denominator raises ZeroDivisionError.
FractionOf(s) ==
    LET t == Strip(s)
        p == SkipDigits(t, 1)
    IN  IF p > 1 /\ p <= Len(t) /\ t[p] = "/"
        THEN IF IsDigits(Slice(t, p + 1, Len(t) + 1))
             THEN IF DigitsVal(Slice(t, p + 1, Len(t) + 1)) = 0
                  THEN Raised("ZeroDivisionError")
                  ELSE Val(Rat(DigitsVal(Slice(t, 1, p)),
                               DigitsVal(Slice(t, p + 1, Len(t) + 1))))
             ELSE Raised("ValueError")
        ELSE DecimalLiteral(t)

\* the body of the try block of parse_quantity
ParseQuantityTry(s) ==
    IF HasChar(s, " ") /\ HasChar(s, "/")
    THEN LET parts == SplitBlank(s)
         IN  IF Len(parts) # 2
             THEN Raised("ValueError")       \* the unpacking of split()
             ELSE LET whole == FloatOf(parts[1])
                      fraction == FractionOf(parts[2])
                  IN  IF whole.k = "raise" THEN whole
                      ELSE IF fraction.k = "raise" THEN fraction
                      ELSE Val(RatAdd(whole.v, fraction.v))
    ELSE FractionOf(s)

\* a handler that lets the division by zero escape
ExceptValueErrorOnly(e) == e = "ValueError"

\* the bare "except:" of parse_quantity catches every exception
ExceptCatches(e) == TRUE

parse_quantity(s) ==
    LET r == ParseQuantityTry(s)
    IN  IF r.k = "raise" /\ ExceptCatches(r.e) THEN None ELSE r

(***************************************************************************)
(* extract_ingredients.                                                    *)
(*                                                                         *)
(* The quantity alternation (\d+/\d+|\d+\.\d+|\d+\s\d+/\d+|\d+) is tried   *)
(* in order; each operator gives the position after the alternative        *)
(* matched at i, or 0.  Every digit run is taken whole: what follows the   *)
(* alternation in both patterns is \s*[a-zA-Z]+, which cannot start at a   *)
(* digit, so giving digits back never lets a match succeed.                *)
(***************************************************************************)
CharAt(s, i) == IF i >= 1 /\ i <= Len(s) THEN s[i] ELSE "EOF"

\* \d+ c \d+ at i, for a separator character c
DigitsSepDigits(s, i, c) ==
    LET p == SkipDigits(s, i)
        q == SkipDigits(s, p + 1)
    IN  IF p > i /\ CharAt(s, p) = c /\ q > p + 1 THEN q ELSE 0

\* \d+\s\d+/\d+ at i
MixedNumber(s, i) ==
    LET p == SkipDigits(s, i)
        q == SkipDigits(s, p + 1)
    IN  IF p > i /\ IsSpace(CharAt(s, p)) /\ q > p + 1
        THEN DigitsSepDigits(s, p + 1, "/")
        ELSE 0

\* \d+ at i
WholeNumber(s, i) == LET p == SkipDigits(s, i) IN IF p > i THEN p ELSE 0

QtyAlternatives(s, i) ==
    <<DigitsSepDigits(s, i, "/"), DigitsSepDigits(s, i, "."),
      MixedNumber(s, i), WholeNumber(s, i)>>

\* \s*([a-zA-Z]+) at e: <<start of the letters, position after them>>, or
\* <<0, 0>>.  Both runs are greedy and whole.
UnitToken(s, e) ==
    LET u == SkipSpace(s, e)
        v == SkipAlpha(s, u)
    IN  IF v > u THEN <<u, v>> ELSE <<0, 0>>

\* the first position >= i of s holding one of the characters, Len(s)+1 if none
RECURSIVE FindChar(_, _, _)
FindChar(s, i, cs) ==
    IF i <= Len(s) /\ s[i] \notin cs THEN FindChar(s, i + 1, cs) ELSE i

\* What follows the quantity in the line pattern, from position e:
\*   \s*([a-zA-Z]+)\s+.*?(?=,|\n|$)
\* The letters must be followed by a blank (so the run is whole), \s+ takes
\* every blank, newlines included, and the lazy .*? stops at the first
\* comma, newline or end of text.  The position after the match, or 0.
LineTail(s, e) ==
    LET uv == UnitToken(s, e)
        w == SkipSpace(s, uv[2])
    IN  IF uv[1] > 0 /\ IsSpace(CharAt(s, uv[2]))
        THEN FindChar(s, w, {",", "\n"})
        ELSE 0

\* The line pattern tried at position p (the hyphen): <<start of group 1,
\* position after the match>>, or <<0, 0>>.
LineMatchAt(s, p) ==
    LET q == SkipSpace(s, p + 1)
        alts == QtyAlternatives(s, q)
        ok == {a \in DOMAIN alts : alts[a] > 0 /\ LineTail(s, alts[a]) > 0}
    IN  IF CharAt(s, p) = "-" /\ ok # {}
        THEN <<q, LineTail(s, alts[CHOOSE a \in ok : \A b \in ok : a <= b])>>
        ELSE <<0, 0>>

\* re.finditer of the line pattern: group 1 of every match, left to right,
\* each search resuming where the previous match ended.
RECURSIVE FindLines(_, _)
FindLines(s, p) ==
    IF p > Len(s) THEN <<>>
    ELSE LET m == LineMatchAt(s, p)
         IN  IF m[1] > 0
             THEN <<Slice(s, m[1], m[2])>> \o FindLines(s, m[2])
             ELSE FindLines(s, p + 1)

\* re.split(r',\s*(?=\d)', s): cut at each comma that, after any blanks, is
\* followed by a digit; the comma and the blanks are dropped.
RECURSIVE SplitCommaDigit(_, _, _)
SplitCommaDigit(s, from, i) ==
    IF i > Len(s) THEN <<Slice(s, from, Len(s) + 1)>>
    ELSE LET j == SkipSpace(s, i + 1)
         IN  IF s[i] = "," /\ IsDigit(CharAt(s, j))
             THEN <<Slice(s, from, i)>> \o SplitCommaDigit(s, j, j)
             ELSE SplitCommaDigit(s, from, i + 1)

SplitParts(s) == SplitCommaDigit(s, 1, 1)

\* The sub-entry pattern ^(qty)\s*([a-zA-Z]+)\s*(.*) on a part: its three
\* groups, or matched = FALSE.  (.*) stops at a newline.
PartMatch(part) ==
    LET alts == QtyAlternatives(part, 1)
        ok == {a \in DOMAIN alts : alts[a] > 0 /\ UnitToken(part, alts[a])[1] > 0}
        e == alts[CHOOSE a \in ok : \A b \in ok : a <= b]
        uv == UnitToken(part, e)
        r == SkipSpace(part, uv[2])
    IN  IF ok = {} THEN [matched |-> FALSE]
        ELSE [matched |-> TRUE,
              qty |-> Slice(part, 1, e),
              unit |-> Slice(part, uv[1], uv[2]),
              ingredient_part |-> Slice(part, r, FindChar(part, r, {"\n"}))]

\* unit.rstrip('s'): every trailing lowercase s is removed
RECURSIVE RStripS(_)
RStripS(s) ==
    IF Len(s) > 0 /\ s[Len(s)] = "s" THEN RStripS(SubSeq(s, 1, Len(s) - 1)) ELSE s

\* unit_pattern: the alternatives of \b(cups?|tbsps?|tsps?|oz|lbs?|
\* teaspoons?|tablespoons?|g|kg|ml)\b, each with whether it takes "s?"
UnitPattern ==
    << [w |-> <<"c", "u", "p">>, s |-> TRUE],
       [w |-> <<"t", "b", "s", "p">>, s |-> TRUE],
       [w |-> <<"t", "s", "p">>, s |-> TRUE],
       [w |-> <<"o", "z">>, s |-> FALSE],
       [w |-> <<"l", "b">>, s |-> TRUE],
       [w |-> <<"t", "e", "a", "s", "p", "o", "o", "n">>, s |-> TRUE],
       [w |-> <<"t", "a", "b", "l", "e", "s", "p", "o", "o", "n">>, s |-> TRUE],
       [w |-> <<"g">>, s |-> FALSE],
       [w |-> <<"k", "g">>, s |-> FALSE],
       [w |-> <<"m", "l">>, s |-> FALSE] >>

\* re.search(unit_pattern, t, re.IGNORECASE) for a token t of letters only:
\* the word boundaries make the match the whole token.
UnitMatches(t) ==
    \E a \in DOMAIN UnitPattern :
        \/ Lower(t) = UnitPattern[a].w
        \/ UnitPattern[a].s /\ Lower(t) = UnitPattern[a].w \o <<"s">>

\* lines 75-79: the unit of a sub-entry, or <<>> when it is not recognized
NormalizeUnit(unit) ==
    LET t == RStripS(unit)
    IN  IF UnitMatches(t) THEN Lower(t) ELSE <<>>

\* str.replace('-', ' ')
HyphensToSpaces(s) == [i \in DOMAIN s |-> IF s[i] = "-" THEN " " ELSE s[i]]

\* truthiness of the value parse_quantity returned
Truthy(q) == q.k = "val" /\ q.v[1] # 0

\* lines 62-87 for one part: the records it adds (none or one)
PartRecords(part) ==
    LET m == PartMatch(part)
        unit == NormalizeUnit(m.unit)
        q == parse_quantity(m.qty)
    IN  IF ~m.matched THEN <<>>
        ELSE IF unit = <<>> THEN <<>>
        ELSE IF Truthy(q) /\ Len(m.ingredient_part) > 0
        THEN << [ingredient |-> Strip(HyphensToSpaces(Lower(m.ingredient_part))),
                 quantity |-> q.v,
                 unit |-> unit] >>
        ELSE <<>>

RECURSIVE Concat(_)
Concat(ss) == IF Len(ss) = 0 THEN <<>> ELSE Head(ss) \o Concat(Tail(ss))

\* lines 59-87 for one discovered line
LineRecords(full_match) ==
    LET parts == SplitParts(full_match)
    IN  Concat([i \in DOMAIN parts |-> PartRecords(Strip(parts[i]))])

extract_ingredients(s) ==
    LET found == FindLines(s, 1)
    IN  Concat([i \in DOMAIN found |-> LineRecords(found[i])])

(***************************************************************************)
(* The quantity parser on its own: every token over TokChars of at most    *)
(* MaxTokLen characters.                                                   *)
(***************************************************************************)
TokChars == {"0", "1", "2", " ", "/", ".", "a"}

Tokens == UNION {[1..n -> TokChars] : n \in 0..MaxTokLen}

Idle == <<>>

InitQty ==
    /\ pc = "parse_quantity"
    /\ qty_str \in Tokens
    /\ quantity = None
    /\ text = Idle
    /\ ingredients = Idle
    /\ response = Idle
    /\ result = None
    /\ raised = None
    /\ reply = Idle

ParseQuantity ==
    /\ pc = "parse_quantity"
    /\ quantity' = parse_quantity(qty_str)
    /\ pc' = "returned"
    /\ UNCHANGED <<qty_str, text, ingredients, response, result, raised, reply>>

NextQty == ParseQuantity

SpecQty == InitQty /\ [][NextQty]_vars

(***************************************************************************)
(* The extractor on its own: texts of at most MaxLines lines, each line a  *)
(* hyphen, a quantity, a unit word and a tail.                             *)
(***************************************************************************)
Qtys == { <<"2">>, <<"1", " ", "1", "/", "2">>, <<"0">> }

UnitWords == { <<"c", "u", "p", "s">>, <<"C", "U", "P", "S">>, <<"e", "g", "g", "s">> }

TailNone == <<>>
TailName == <<" ", "f", "l", "o", "u", "r">>
TailComma == <<" ", "o", "i", "l", ",", " ", "m", "e", "l", "t", "e", "d">>
TailTwoItems ==
    <<" ", "r", "y", "e", ",", " ", "1", " ", "t", "s", "p", " ", "s", "a", "l", "t">>
TailHyphen == <<" ", "-">>

LineTails == {TailNone, TailName, TailComma, TailTwoItems, TailHyphen}

MakeLine(q, u, t) == <<"-", " ">> \o q \o <<" ">> \o u \o t

InputLines == {MakeLine(q, u, t) : q \in Qtys, u \in UnitWords, t \in LineTails}

\* "\n".join(ls)
RECURSIVE JoinLines(_)
JoinLines(ls) ==
    IF Len(ls) = 0 THEN <<>>
    ELSE IF Len(ls) = 1 THEN ls[1]
    ELSE ls[1] \o <<"\n">> \o JoinLines(Tail(ls))

TextsUpTo(n) == {JoinLines(ls) : ls \in UNION {[1..k -> InputLines] : k \in 0..n}}

InitExtract ==
    /\ pc = "extract_ingredients"
    /\ text \in TextsUpTo(MaxLines)
    /\ ingredients = Idle
    /\ qty_str = Idle
    /\ quantity = None
    /\ response = Idle
    /\ result = None
    /\ raised = None
    /\ reply = Idle

ExtractIngredients ==
    /\ pc = "extract_ingredients"
    /\ ingredients' = extract_ingredients(text)
    /\ pc' = "returned"
    /\ UNCHANGED <<qty_str, quantity, text, response, result, raised, reply>>

NextExtract == ExtractIngredients

SpecExtract == InitExtract /\ [][NextExtract]_vars

(***************************************************************************)
(* convert_with_gemini.                                                    *)
(*                                                                         *)
(* The external service is a black box; `response` is what one call to it  *)
(* does:                                                                   *)
(*   [call |-> "raises"]                 generate_content raises           *)
(*   [call |-> "returns", body |-> b]    it returns text, where b is       *)
(*     [kind |-> "nobrace"]              text with no {...} span           *)
(*     [kind |-> "badjson"]              a span json.loads rejects         *)
(*     [kind |-> "json", obj |-> o]      a span that parses to the dict o  *)
(* A parsed dict is a function from its keys; a list is a sequence; a JSON *)
(* value inside the results list is [t |-> "dict", d |-> f] or, for a      *)
(* value that is no object, [t |-> "str"].                                 *)
(***************************************************************************)
Restrict(f, D) == [k \in D |-> f[k]]

\* dict.pop(key, None)
Pop(d, key) == Restrict(d, DOMAIN d \ {key})

\* sub in s, for strings
RECURSIVE ContainsFrom(_, _, _)
ContainsFrom(s, sub, i) ==
    IF i + Len(sub) - 1 > Len(s) THEN FALSE
    ELSE IF SubSeq(s, i, i + Len(sub) - 1) = sub THEN TRUE
    ELSE ContainsFrom(s, sub, i + 1)

Contains(s, sub) == ContainsFrom(s, sub, 1)

Flour == <<"f", "l", "o", "u", "r">>

\* a loop body that forgets the state annotation
ProcessItemNotesOnly(item) ==
    IF item.t # "dict" THEN Raised("AttributeError")
    ELSE LET d == Pop(item.d, "notes")
         IN  IF "ml" \in DOMAIN d /\ "grams" \in DOMAIN d
             THEN IF "ingredient" \notin DOMAIN d THEN Raised("KeyError")
                  ELSE IF Contains(d.ingredient, Flour)
                  THEN Val([t |-> "dict", d |-> Pop(d, "ml")])
                  ELSE Val([t |-> "dict", d |-> Pop(d, "grams")])
             ELSE Val([t |-> "dict", d |-> d])

\* a loop body with the two deletions exchanged
ProcessItemSwapped(item) ==
    IF item.t # "dict" THEN Raised("AttributeError")
    ELSE LET d == Pop(Pop(item.d, "notes"), "state")
         IN  IF "ml" \in DOMAIN d /\ "grams" \in DOMAIN d
             THEN IF "ingredient" \notin DOMAIN d THEN Raised("KeyError")
                  ELSE IF Contains(d.ingredient, Flour)
                  THEN Val([t |-> "dict", d |-> Pop(d, "grams")])
                  ELSE Val([t |-> "dict", d |-> Pop(d, "ml")])
             ELSE Val([t |-> "dict", d |-> d])

\* lines 126-135, the loop body on one item: the item as the loop leaves it,
\* or the exception it raises (item.pop on a value that is no dict; the
\* lookup of a missing "ingredient" key)
ProcessItem(item) ==
    IF item.t # "dict" THEN Raised("AttributeError")
    ELSE LET d == Pop(Pop(item.d, "notes"), "state")
         IN  IF "ml" \in DOMAIN d /\ "grams" \in DOMAIN d
             THEN IF "ingredient" \notin DOMAIN d THEN Raised("KeyError")
                  ELSE IF Contains(d.ingredient, Flour)
                  THEN Val([t |-> "dict", d |-> Pop(d, "ml")])
                  ELSE Val([t |-> "dict", d |-> Pop(d, "grams")])
             ELSE Val([t |-> "dict", d |-> d])

\* lines 125-135, the loop from item i on, `done` being the items already
\* processed: [exc, done] with exc the exception that ended it, or None
RECURSIVE ProcessFrom(_, _, _)
ProcessFrom(items, i, done) ==
    IF i > Len(items) THEN [exc |-> None, done |-> done]
    ELSE LET r == ProcessItem(items[i])
         IN  IF r.k = "raise" THEN [exc |-> r, done |-> done]
             ELSE ProcessFrom(items, i + 1, Append(done, r.v))

\* lines 119-137, the try block: the exception it raises or None, with the
\* items processed so far
ConvertTry(resp) ==
    IF resp.call = "raises" THEN [exc |-> Raised("Exception"), done |-> <<>>]
    ELSE IF resp.body.kind = "nobrace"
    THEN [exc |-> Raised("AttributeError"), done |-> <<>>]
    ELSE IF resp.body.kind = "badjson"
    THEN [exc |-> Raised("JSONDecodeError"), done |-> <<>>]
    ELSE IF "results" \notin DOMAIN resp.body.obj
    THEN [exc |-> Raised("KeyError"), done |-> <<>>]
    ELSE IF resp.body.obj.results.t # "list"
    THEN [exc |-> Raised("TypeError"), done |-> <<>>]
    ELSE ProcessFrom(resp.body.obj.results.items, 1, <<>>)

\* a handler that hands back what the loop had finished
ConvertExceptPartial(done) == Val(done)

\* lines 139-141: the handler prints the cause and returns None
ConvertExcept(done) == None

convert_with_gemini(resp) ==
    LET r == ConvertTry(resp)
    IN  IF r.exc.k = "raise" THEN ConvertExcept(r.done) ELSE Val(r.done)

(***************************************************************************)
(* The conversion on its own: every answer of the service with at most     *)
(* MaxItems items in its results list.                                     *)
(***************************************************************************)
ItemKeys == {"ingredient", "grams", "ml", "notes", "state", "unit"}

IngredientNames ==
    { <<"r", "y", "e", " ", "f", "l", "o", "u", "r">>, <<"w", "a", "t", "e", "r">> }

FullItem(name) ==
    [ingredient |-> name, grams |-> 125, ml |-> 240,
     notes |-> "sifted", state |-> "dry", unit |-> "cup"]

JsonItems ==
    {[t |-> "dict", d |-> Restrict(FullItem(n), D)] :
        n \in IngredientNames, D \in SUBSET ItemKeys}
    \cup {[t |-> "str"]}

JsonLists(n) == UNION {[1..k -> JsonItems] : k \in 0..n}

ResponsesUpTo(n) ==
    {[call |-> "raises"]}
    \cup {[call |-> "returns", body |-> [kind |-> k]] : k \in {"nobrace", "badjson"}}
    \cup {[call |-> "returns", body |-> [kind |-> "json", obj |-> o]] :
            o \in {[status |-> "ok"], [results |-> [t |-> "number"]]}}
    \cup {[call |-> "returns",
           body |-> [kind |-> "json", obj |-> [results |-> [t |-> "list", items |-> l]]]] :
            l \in JsonLists(n)}

InitConvert ==
    /\ pc = "convert_with_gemini"
    /\ response \in ResponsesUpTo(MaxItems)
    /\ result = None
    /\ qty_str = Idle
    /\ quantity = None
    /\ text = Idle
    /\ ingredients = Idle
    /\ raised = None
    /\ reply = Idle

ConvertWithGemini ==
    /\ pc = "convert_with_gemini"
    /\ result' = convert_with_gemini(response)
    /\ pc' = "returned"
    /\ UNCHANGED <<qty_str, quantity, text, ingredients, response, raised, reply>>

NextConvert == ConvertWithGemini

SpecConvert == InitConvert /\ [][NextConvert]_vars

(***************************************************************************)
(* POST /convert-recipe (convert_recipe), statement by statement.  The     *)
(* whole body of the handler is inside "try"; "except Exception" receives  *)
(* whatever it raises, HTTPException included (it derives from Exception). *)
(* A message is [text |-> m]; the detail of the final error is str(e),     *)
(* kept symbolic as [str |-> e]: its rendering depends on the framework's  *)
(* version, and in none is it the detail of e alone.                       *)
(***************************************************************************)
Message(m) == [text |-> m]

HTTPException(status_code, detail) ==
    [k |-> "raise", e |-> "HTTPException",
     status_code |-> status_code, detail |-> Message(detail)]

\* "not x" of Python for what convert_with_gemini returns: None or an empty list
Falsy(r) == r.k = "none" \/ (r.k = "val" /\ Len(r.v) = 0)

PostTexts == TextsUpTo(1)

PostResponses == ResponsesUpTo(1)

InitPost ==
    /\ pc = "extract"
    /\ text \in PostTexts
    /\ ingredients = Idle
    /\ response = Idle
    /\ result = None
    /\ raised = None
    /\ reply = Idle
    /\ qty_str = Idle
    /\ quantity = None

\* line 146
PostExtract ==
    /\ pc = "extract"
    /\ ingredients' = extract_ingredients(text)
    /\ pc' = "check_ingredients"
    /\ UNCHANGED <<qty_str, quantity, text, response, result, raised, reply>>

\* lines 148-149
PostCheckIngredients ==
    /\ pc = "check_ingredients"
    /\ IF Len(ingredients) = 0
       THEN /\ raised' = HTTPException(400, "No ingredients detected")
            /\ pc' = "except"
       ELSE /\ raised' = raised
            /\ pc' = "convert"
    /\ UNCHANGED <<qty_str, quantity, text, ingredients, response, result, reply>>

\* line 151: the call, against whatever the external service does
PostConvert ==
    /\ pc = "convert"
    /\ \E r \in PostResponses :
          /\ response' = r
          /\ result' = convert_with_gemini(r)
    /\ pc' = "check_result"
    /\ UNCHANGED <<qty_str, quantity, text, ingredients, raised, reply>>

\* lines 153-160
PostCheckResult ==
    /\ pc = "check_result"
    /\ IF Falsy(result)
       THEN /\ raised' = HTTPException(500, "Conversion failed")
            /\ pc' = "except"
            /\ reply' = reply
       ELSE /\ reply' = [status_code |-> 200,
                         body |-> [status |-> "success",
                                   ingredients |-> ingredients,
                                   conversions |-> result.v]]
            /\ pc' = "replied"
            /\ raised' = raised
    /\ UNCHANGED <<qty_str, quantity, text, ingredients, response, result>>

\* lines 162-163: the handler's own except clause re-raises as a 500
PostExcept ==
    /\ pc = "except"
    /\ reply' = [status_code |-> 500, detail |-> [str |-> raised]]
    /\ pc' = "replied"
    /\ UNCHANGED <<qty_str, quantity, text, ingredients, response, result, raised>>

NextPost ==
    \/ PostExtract
    \/ PostCheckIngredients
    \/ PostConvert
    \/ PostCheckResult
    \/ PostExcept

SpecPost == InitPost /\ [][NextPost]_vars

(***************************************************************************)
(* The claims.                                                             *)
(***************************************************************************)

\* C1: POST /convert-recipe on a text from which extract_ingredients returns
\* no record answers with a client-error (4xx) status and the message "No
\* ingredients detected", without reaching the conversion stage.
PostEmptyIsClientError ==
    (pc = "replied" /\ Len(ingredients) = 0) =>
        /\ reply.status_code \in 400..499
        /\ reply.detail = Message("No ingredients detected")
        /\ response = Idle

Cups == <<"c", "u", "p">>

RecognizedUnitWords == {u \in UnitWords : Lower(u) = Cups \o <<"s">>}

PositiveQtys == Qtys \ {<<"0">>}

\* the value a quantity token of the input denotes
QtyValue(q) ==
    IF q = <<"2">> THEN <<2, 1>> ELSE IF q = <<"0">> THEN <<0, 1>> ELSE <<3, 2>>

\* C2: a line "- <qty1> <unit1> <name1>, <qty2> <unit2> <name2>" with both
\* units recognized and both quantities positive gives two records, one per
\* sub-entry, in text order.
TwoItemLineGivesTwoRecords ==
    pc = "returned" =>
        \A q \in PositiveQtys, u \in RecognizedUnitWords :
            text = MakeLine(q, u, TailTwoItems) =>
                /\ Len(ingredients) = 2
                /\ ingredients[1].ingredient = <<"r", "y", "e">>
                /\ ingredients[1].quantity = QtyValue(q)
                /\ ingredients[2].ingredient = <<"s", "a", "l", "t">>
                /\ ingredients[2].quantity = <<1, 1>>
                /\ ingredients[2].unit = <<"t", "s", "p">>

\* C3: a line "- <qty> <unit> <name>, <non-digit text>" with a recognized
\* unit and a valid quantity gives exactly one record, whose ingredient is
\* the whole remainder, comma and following text included ("oil, melted").
CommaTextStaysInName ==
    pc = "returned" =>
        \A q \in PositiveQtys, u \in RecognizedUnitWords :
            text = MakeLine(q, u, TailComma) =>
                /\ Len(ingredients) = 1
                /\ ingredients[1].ingredient = Strip(TailComma)

\* C4: every record returned by extract_ingredients has a non-empty
\* ingredient name, a strictly positive quantity and a non-empty unit.
RecordFieldsNonEmpty ==
    pc = "returned" =>
        \A i \in DOMAIN ingredients :
            /\ Len(ingredients[i].ingredient) > 0
            /\ ingredients[i].quantity[1] > 0
            /\ Len(ingredients[i].unit) > 0

SingularUnits == {UnitPattern[a].w : a \in DOMAIN UnitPattern}

\* C5: the unit of every record returned by extract_ingredients is one of
\* the singular lowercase words cup, tbsp, tsp, oz, lb, teaspoon,
\* tablespoon, g, kg, ml, whatever the case and plural form in the text.
UnitIsSingularLowercase ==
    pc = "returned" =>
        \A i \in DOMAIN ingredients : ingredients[i].unit \in SingularUnits

\* C10: a well-formed line "- <qty> <unit> <name>" with a recognized unit
\* and a positive quantity yields its own record whatever the line before it
\* is, and a preceding line that lacks the name (quantity and one word only)
\* yields no record.
LinesExtractedIndependently ==
    pc = "returned" =>
        \A l \in InputLines, q \in PositiveQtys, u \in RecognizedUnitWords :
            text = JoinLines(<<l, MakeLine(q, u, TailName)>>) =>
                /\ Len(ingredients) > 0
                /\ ingredients[Len(ingredients)].ingredient = Strip(TailName)
                /\ ingredients[Len(ingredients)].quantity = QtyValue(q)
                /\ (\E q1 \in Qtys, u1 \in UnitWords : l = MakeLine(q1, u1, TailNone))
                      => Len(ingredients) = 1

ReturnedList == pc = "returned" /\ result.k = "val"

\* the items of the results list as the service sent them
SentItems == response.body.obj.results.items

BothUnits(d) == {"grams", "ml"} \subseteq DOMAIN d

\* C6: no returned item has both grams and ml; an item sent with both keeps
\* grams when its ingredient name contains "flour" and ml otherwise; an item
\* sent with one of the two keeps that one.
GramsOrMlNeverBoth ==
    ReturnedList =>
        \A i \in DOMAIN result.v :
            LET sent == SentItems[i].d
                got == result.v[i].d
            IN  /\ ~BothUnits(got)
                /\ BothUnits(sent) =>
                      IF Contains(sent.ingredient, Flour)
                      THEN "grams" \in DOMAIN got /\ got.grams = sent.grams
                      ELSE "ml" \in DOMAIN got /\ got.ml = sent.ml
                /\ ~BothUnits(sent) =>
                      /\ DOMAIN got \cap {"grams", "ml"} = DOMAIN sent \cap {"grams", "ml"}
                      /\ \A k \in DOMAIN got \cap {"grams", "ml"} : got[k] = sent[k]

GramsOrMlWitness ==
    /\ ReturnedList
    /\ Len(result.v) = 2
    /\ BothUnits(SentItems[1].d) /\ Contains(SentItems[1].d.ingredient, Flour)
    /\ BothUnits(SentItems[2].d) /\ ~Contains(SentItems[2].d.ingredient, Flour)
    /\ "ml" \notin DOMAIN result.v[1].d
    /\ "grams" \notin DOMAIN result.v[2].d

Unprocessable(item) ==
    item.t # "dict" \/ (BothUnits(item.d) /\ "ingredient" \notin DOMAIN item.d)

\* a step of the round trip fails
RoundTripFails(resp) ==
    \/ resp.call = "raises"
    \/ resp.body.kind \in {"nobrace", "badjson"}
    \/ "results" \notin DOMAIN resp.body.obj
    \/ resp.body.obj.results.t # "list"
    \/ \E i \in DOMAIN resp.body.obj.results.items :
          Unprocessable(resp.body.obj.results.items[i])

\* C8: when any step of the round trip fails, convert_with_gemini raises
\* nothing and returns None, never the items processed before the failure.
ConversionAllOrNothing ==
    pc = "returned" =>
        /\ result.k # "raise"
        /\ RoundTripFails(response) => result = None

ConversionFailureWitness ==
    /\ pc = "returned"
    /\ result = None
    /\ response.call = "returns"
    /\ response.body.kind = "json"
    /\ "results" \in DOMAIN response.body.obj
    /\ response.body.obj.results.t = "list"
    /\ Len(SentItems) = 2
    /\ ~Unprocessable(SentItems[1])
    /\ Unprocessable(SentItems[2])

\* a token "n/d" of digits
IsFractionToken(s, p) ==
    /\ s[p] = "/"
    /\ IsDigits(Slice(s, 1, p))
    /\ IsDigits(Slice(s, p + 1, Len(s) + 1))

\* a token "w n/d" of digits with a single space
IsMixedToken(s, b, p) ==
    /\ s[b] = " " /\ s[p] = "/" /\ b < p
    /\ IsDigits(Slice(s, 1, b))
    /\ IsDigits(Slice(s, b + 1, p))
    /\ IsDigits(Slice(s, p + 1, Len(s) + 1))

\* C9: parse_quantity never raises; it returns None for the empty token, for
\* a token with a non-numeric part and for a fraction or mixed number with a
\* zero denominator, and whole + numerator/denominator for "w n/d", d > 0.
ParseQuantityTotal ==
    pc = "returned" =>
        /\ quantity.k \in {"val", "none"}
        /\ qty_str = <<>> => quantity = None
        /\ HasChar(qty_str, "a") => quantity = None
        /\ \A p \in DOMAIN qty_str :
              (IsFractionToken(qty_str, p)
                 /\ DigitsVal(Slice(qty_str, p + 1, Len(qty_str) + 1)) = 0)
              => quantity = None
        /\ \A b, p \in DOMAIN qty_str :
              IsMixedToken(qty_str, b, p) =>
                 LET w == DigitsVal(Slice(qty_str, 1, b))
                     n == DigitsVal(Slice(qty_str, b + 1, p))
                     d == DigitsVal(Slice(qty_str, p + 1, Len(qty_str) + 1))
                 IN  IF d = 0 THEN quantity = None
                     ELSE quantity = Val(Rat(w * d + n, d))

ParseQuantityWitness ==
    /\ pc = "returned"
    /\ qty_str = <<"1", " ", "1", "/", "2">>
    /\ quantity = Val(<<3, 2>>)

=============================================================================
